---- MODULE Spec2Model ----
(***************************************************************************)
(* Seating planner (src/scripts.js): the room of classified tiles, the     *)
(* pupil list, the rule engine and score, the initial-assignment builder,  *)
(* the assignment repair, the simulated-annealing solvers and the editing  *)
(* handlers that call them.                                                *)
(*                                                                         *)
(* Representation.                                                         *)
(*  - A tile key "r,c" is the pair <<r, c>>.                               *)
(*  - A string that the code formats or parses (a seat identifier) is a    *)
(*    sequence of one-character strings: "S00_01" is                       *)
(*    <<"S","0","0","_","0","1">>; the empty sequence is the falsy value   *)
(*    (undefined or "").                                                   *)
(*  - A JS Map is the sequence of its entries in insertion order; a JS     *)
(*    Set, which the code only filters and tests, is a set.                *)
(*  - An assignment object is a function from pupil ids to seat ids.       *)
(*  - mulberry32(seed) is the stream of its outputs: a sequence of         *)
(*    numerators u over RngDen, the k-th call returning u[k] / RngDen in   *)
(*    [0,1).  The 32-bit mixing is not modelled: a seed stands for any     *)
(*    stream.                                                              *)
(***************************************************************************)
EXTENDS Integers, Sequences, FiniteSets, TLC

\* ---------------------------------------------------------------- bounds
MaxRows == 2
MaxCols == 2
MaxPupils == 3
MaxRestarts == 2
MaxIters == 2
RngDen == 2

\* ------------------------------------------------------ program constants
HARD_MULT == 1000000
\* bestScore and bestHard start at Infinity: above every total of the model.
Infinity == 2147483647

\* --------------------------------------------------------------- strings
DigitChars == <<"0", "1", "2", "3", "4", "5", "6", "7", "8", "9">>

\* The value of each digit character.
DigitMap == [ch \in {DigitChars[d] : d \in 1..10} |->
               (CHOOSE d \in 1..10 : DigitChars[d] = ch) - 1]

IsDigit(ch) == ch \in DOMAIN DigitMap

DigitVal(ch) == DigitMap[ch]

RECURSIVE StringOf(_)
\* String(n) for an integer n >= 0.
StringOf(n) ==
    IF n < 10 THEN <<DigitChars[n + 1]>>
    ELSE StringOf(n \div 10) \o <<DigitChars[(n % 10) + 1]>>

RECURSIVE padStart(_, _, _)
padStart(s, len, ch) ==
    IF Len(s) >= len THEN s ELSE padStart(<<ch>> \o s, len, ch)

\* parseInt(m, 10) of a string of digits.
RECURSIVE parseInt(_)
parseInt(s) ==
    IF Len(s) = 0 THEN 0
    ELSE 10 * parseInt(SubSeq(s, 1, Len(s) - 1)) + DigitVal(s[Len(s)])

Null == [null |-> TRUE]

keyRC(r, c) == <<r, c>>

seatIdFor(r, c) ==
    <<"S">> \o padStart(StringOf(r), 2, "0") \o <<"_">> \o padStart(StringOf(c), 2, "0")

\* /^S(\d{2})_(\d{2})$/ : null unless the identifier has exactly this form.
seatPosById(seatId) ==
    IF /\ Len(seatId) = 6
       /\ seatId[1] = "S"
       /\ IsDigit(seatId[2]) /\ IsDigit(seatId[3])
       /\ seatId[4] = "_"
       /\ IsDigit(seatId[5]) /\ IsDigit(seatId[6])
    THEN [r |-> parseInt(SubSeq(seatId, 2, 3)), c |-> parseInt(SubSeq(seatId, 5, 6))]
    ELSE Null

\* ------------------------------------------------------------------ Map
MapHas(m, k) == \E i \in 1..Len(m) : m[i].k = k

MapGet(m, k) == m[CHOOSE i \in 1..Len(m) : m[i].k = k].v

\* Map.set: an existing key keeps its place, a new key goes last.
MapSet(m, k, v) ==
    IF MapHas(m, k)
    THEN [i \in 1..Len(m) |-> IF m[i].k = k THEN [k |-> k, v |-> v] ELSE m[i]]
    ELSE Append(m, [k |-> k, v |-> v])

MapDelete(m, k) == SelectSeq(m, LAMBDA e : e.k # k)

MapValues(m) == [i \in 1..Len(m) |-> m[i].v]

MapKeys(m) == {m[i].k : i \in 1..Len(m)}

\* Array.includes
Includes(arr, x) == \E i \in 1..Len(arr) : arr[i] = x

\* ---------------------------------------------------------- room helpers
isBlocked(room, r, c) == keyRC(r, c) \in room.blocked

isTeacher(room, r, c) == keyRC(r, c) \in room.teacher

isSeat(room, r, c) == MapHas(room.seats, keyRC(r, c))

ensureSeat(room, r, c) ==
    LET k == keyRC(r, c) IN
    [room EXCEPT !.blocked = IF isBlocked(room, r, c) THEN @ \ {k} ELSE @,
                 !.seats = MapSet(@, k, seatIdFor(r, c))]

ensureBlocked(room, r, c) ==
    LET k == keyRC(r, c) IN
    [room EXCEPT !.seats = MapDelete(@, k),
                 !.teacher = @ \ {k},
                 !.blocked = @ \cup {k}]

ensureTeacher(room, r, c) ==
    LET k == keyRC(r, c) IN
    [room EXCEPT !.blocked = IF isBlocked(room, r, c) THEN @ \ {k} ELSE @,
                 !.teacher = @ \cup {k}]

ensureEmpty(room, r, c) ==
    LET k == keyRC(r, c) IN
    [room EXCEPT !.seats = MapDelete(@, k),
                 !.teacher = @ \ {k},
                 !.blocked = @ \ {k}]

allSeatIds(room) == MapValues(room.seats)

\* ------------------------------------------------------- random helpers
\* The streams a seed can stand for, n calls long.
Seeds(n) == [1..n -> 0..(RngDen - 1)]

\* Math.floor(rng() * m) at the k-th call of the stream us.
FloorRng(us, k, m) == (us[k] * m) \div RngDen

Swap(arr, i, j) ==
    [x \in 1..Len(arr) |-> IF x = i THEN arr[j] ELSE IF x = j THEN arr[i] ELSE arr[x]]

RECURSIVE shuffleFrom(_, _, _, _)
\* The loop of shuffleInPlace at index i (0-based), the stream at call k.
shuffleFrom(arr, i, us, k) ==
    IF i <= 0 THEN [arr |-> arr, k |-> k]
    ELSE LET j == FloorRng(us, k, i + 1)
         IN shuffleFrom(Swap(arr, i + 1, j + 1), i - 1, us, k + 1)

\* Fisher-Yates; returns the shuffled array and the stream's next call.
shuffleInPlace(arr, us, k) == shuffleFrom(arr, Len(arr) - 1, us, k)

\* ---------------------------------------------------------------- pupils
NoFix == [kind |-> "none", seat |-> <<>>, r |-> 0, c |-> 0]

FixSeat(sid) == [kind |-> "seat", seat |-> sid, r |-> 0, c |-> 0]

FixRC(r, c) == [kind |-> "rc", seat |-> <<>>, r |-> r, c |-> c]

\* p.fixed && p.fixed.seat
HasFixedSeat(p) == p.fixed.kind = "seat" /\ p.fixed.seat # <<>>

\* p.fixed && ("r" in p.fixed) && ("c" in p.fixed)
HasFixedRC(p) == p.fixed.kind = "rc"

isFixedPupil(p) == HasFixedSeat(p) \/ p.fixed.kind = "rc"

\* Array.isArray(p.tags) && p.tags.length > 0
IsTagged(p) == Len(p.tags) > 0

\* ------------------------------------------------------------ assignment
EmptyAssign == [x \in {} |-> <<>>]

\* assign[pid], undefined (falsy) when absent
Get(assign, pid) == IF pid \in DOMAIN assign THEN assign[pid] ELSE <<>>

Put(assign, pid, sid) ==
    [x \in DOMAIN assign \cup {pid} |-> IF x = pid THEN sid ELSE assign[x]]

Truthy(s) == s # <<>>

Thrown(msg) == [ok |-> FALSE, err |-> msg, assign |-> EmptyAssign]

Returned(a) == [ok |-> TRUE, err |-> "", assign |-> a]

\* ----------------------------------------------- buildInitialAssignment
WITHIN_ROW_SHUFFLE == 1

Fail(acc, msg) == [acc EXCEPT !.ok = FALSE, !.err = msg]

\* assign[p.id] = sid; used.add(sid), once sid is known not to be used yet.
fixAt(acc, pid, sid) ==
    IF sid \in acc.used THEN Fail(acc, "seat fixed twice")
    ELSE [acc EXCEPT !.assign = Put(@, pid, sid), !.used = @ \cup {sid}]

\* One pass of the fixed-placement loop for pupil p; acc = [ok, err, assign, used].
placeFixedStep(p, room, acc) ==
    IF HasFixedSeat(p)
    THEN IF ~Includes(allSeatIds(room), p.fixed.seat)
         THEN Fail(acc, "fixed seat not in map")
         ELSE fixAt(acc, p.id, p.fixed.seat)
    ELSE IF HasFixedRC(p)
    THEN IF ~MapHas(room.seats, keyRC(p.fixed.r, p.fixed.c))
         THEN Fail(acc, "fixed r,c is not a seat")
         ELSE fixAt(acc, p.id, MapGet(room.seats, keyRC(p.fixed.r, p.fixed.c)))
    ELSE acc

RECURSIVE placeFixed(_, _, _, _)
\* for(const p of pupils) of the fixed placements, from pupil i; a throw ends it.
placeFixed(P, i, room, acc) ==
    IF i > Len(P) \/ ~acc.ok THEN acc
    ELSE placeFixed(P, i + 1, room, placeFixedStep(P[i], room, acc))

IdsOf(ps) == [i \in 1..Len(ps) |-> ps[i].id]

NoPlan(msg) ==
    [ok |-> FALSE, err |-> msg, assign |-> EmptyAssign,
     free |-> <<>>, tagged |-> <<>>, untagged |-> <<>>]

\* The capacity check on the free seats and the split of the remaining pupils.
planCheck(assign, free, tagged, untagged) ==
    IF Len(tagged) + Len(untagged) > Len(free) THEN NoPlan("Not enough seats")
    ELSE [ok |-> TRUE, err |-> "", assign |-> assign,
          free |-> free, tagged |-> tagged, untagged |-> untagged]

\* free, remainingPupils, tagged, untagged after the fixed placements fx.
planAfterFixed(fx, seats, P) ==
    IF ~fx.ok THEN NoPlan(fx.err)
    ELSE planCheck(fx.assign,
           SelectSeq(seats, LAMBDA s : s \notin fx.used),
           IdsOf(SelectSeq(P, LAMBDA p : ~Truthy(Get(fx.assign, p.id)) /\ IsTagged(p))),
           IdsOf(SelectSeq(P, LAMBDA p : ~Truthy(Get(fx.assign, p.id)) /\ ~IsTagged(p))))

\* The builder up to its capacity check.
buildPlan(P, room) ==
    planAfterFixed(
        placeFixed(P, 1, room, [ok |-> TRUE, err |-> "", assign |-> EmptyAssign, used |-> {}]),
        allSeatIds(room), P)

\* The comparator of free2.sort on the parsed positions a and b.
posCmp(a, b) ==
    IF a = Null /\ b = Null THEN 0
    ELSE IF a = Null THEN 1
    ELSE IF b = Null THEN -1
    ELSE IF a.r # b.r THEN a.r - b.r
    ELSE a.c - b.c

\* Row ascending, then column ascending; unparsable ids last.
seatCmp(sa, sb) == posCmp(seatPosById(sa), seatPosById(sb))

RECURSIVE insertSeat(_, _)
\* x into the sorted array s, after every element not greater (a stable sort).
insertSeat(s, x) ==
    IF Len(s) = 0 THEN <<x>>
    ELSE IF seatCmp(s[Len(s)], x) <= 0 THEN Append(s, x)
    ELSE Append(insertSeat(SubSeq(s, 1, Len(s) - 1), x), s[Len(s)])

RECURSIVE sortSeats(_)
sortSeats(s) ==
    IF Len(s) = 0 THEN <<>>
    ELSE insertSeat(sortSeats(SubSeq(s, 1, Len(s) - 1)), s[Len(s)])

\* !p0 || !p1 || p1.r !== p0.r
rowBreak(p0, p1) == p0 = Null \/ p1 = Null \/ p1.r # p0.r

RECURSIVE runEnd(_, _, _)
\* The inner while: the end i1 (0-based, exclusive) of the same-row run of p0.
runEnd(free2, p0, i1) ==
    IF i1 < Len(free2) /\ ~rowBreak(p0, seatPosById(free2[i1 + 1]))
    THEN runEnd(free2, p0, i1 + 1)
    ELSE i1

\* free2 with the shuffled slice written back over [i0, i1).
writeBack(free2, i0, i1, slice) ==
    [x \in 1..Len(free2) |-> IF x > i0 /\ x <= i1 THEN slice[x - i0] ELSE free2[x]]

RECURSIVE rowShuffle(_, _, _, _)

\* The run [i0, i1) shuffled to sh, then the rest of the rows.
rowShuffleRun(free2, i0, i1, sh, us) ==
    rowShuffle(writeBack(free2, i0, i1, sh.arr), i1, us, sh.k)

rowShuffleAt(free2, i0, i1, us, k) ==
    rowShuffleRun(free2, i0, i1, shuffleInPlace(SubSeq(free2, i0 + 1, i1), us, k), us)

\* The outer while: shuffle each same-row run of free2 from i0 (0-based) on.
rowShuffle(free2, i0, us, k) ==
    IF i0 >= Len(free2) THEN [arr |-> free2, k |-> k]
    ELSE rowShuffleAt(free2, i0, runEnd(free2, seatPosById(free2[i0 + 1]), i0 + 1), us, k)

\* A faulty floodOrder: the seats stay in the order of the shuffle.
floodUnsorted(free2, us, k) == free2

\* free2 sorted front to back, each row shuffled.
floodOrder(free2, us, k) ==
    IF WITHIN_ROW_SHUFFLE # 0 THEN rowShuffle(sortSeats(free2), 0, us, k).arr
    ELSE sortSeats(free2)

RECURSIVE assignSeq(_, _, _, _)
\* assign[ids[i]] = arr[i] for every i from n on.
assignSeq(assign, ids, arr, n) ==
    IF n > Len(ids) THEN assign
    ELSE assignSeq(Put(assign, ids[n], arr[n]), ids, arr, n + 1)

\* Tagged pupils on the first shuffled seats, untagged ones by the flood fill.
placeMovable(plan, sh, us) ==
    Returned(assignSeq(assignSeq(plan.assign, plan.tagged, sh.arr, 1),
                       plan.untagged,
                       floodOrder(SubSeq(sh.arr, Len(plan.tagged) + 1, Len(sh.arr)), us, sh.k),
                       1))

buildFromPlan(plan, us) ==
    IF ~plan.ok THEN Thrown(plan.err)
    ELSE placeMovable(plan, shuffleInPlace(plan.free, us, 1), us)

buildInitialAssignment(us, P, room) == buildFromPlan(buildPlan(P, room), us)

Max(a, b) == IF a >= b THEN a ELSE b

Min(a, b) == IF a <= b THEN a ELSE b

planCalls(plan) ==
    IF ~plan.ok THEN 0
    ELSE Max(Len(plan.free) - 1, 0) + Max(Len(plan.free) - Len(plan.tagged) - 1, 0)

\* How many rng() calls buildInitialAssignment can make at most on these inputs:
\* the shuffle of free, then the runs of free2.
BuildCalls(P, room) == planCalls(buildPlan(P, room))

planResults(plan) == {buildFromPlan(plan, us) : us \in Seeds(planCalls(plan))}

\* The results buildInitialAssignment(seed) can have over the seeds.
buildResults(P, room) == planResults(buildPlan(P, room))

\* ------------------------------------------------------ repairAssignment
\* One pass of the "apply fixed" loop; acc = [ok, err, fixed].
repairFixedStep(p, room, acc) ==
    IF HasFixedSeat(p) THEN [acc EXCEPT !.fixed = Put(@, p.id, p.fixed.seat)]
    ELSE IF HasFixedRC(p)
    THEN IF ~MapHas(room.seats, keyRC(p.fixed.r, p.fixed.c))
         THEN Fail(acc, "fixed r,c is not a seat")
         ELSE [acc EXCEPT !.fixed = Put(@, p.id, MapGet(room.seats, keyRC(p.fixed.r, p.fixed.c)))]
    ELSE acc

RECURSIVE repairFixed(_, _, _, _)
repairFixed(P, i, room, acc) ==
    IF i > Len(P) \/ ~acc.ok THEN acc
    ELSE repairFixed(P, i + 1, room, repairFixedStep(P[i], room, acc))

\* A faulty keepSeat: the seat is not marked as used.
keepUnmarked(acc, pid, sid) == [acc EXCEPT !.clean = Put(@, pid, sid)]

\* clean[pid] = sid; used.add(sid)
keepSeat(acc, pid, sid) == [acc EXCEPT !.clean = Put(@, pid, sid), !.used = @ \cup {sid}]

\* A faulty retains: the test !used.has(sid) left out.
retainsUsed(sid, seats, used) == Truthy(sid) /\ Includes(seats, sid)

\* A faulty retains: no prior seat is ever kept.
retainsNone(sid, seats, used) == FALSE

\* if(sid && seats.includes(sid) && !used.has(sid)): a non-fixed pupil keeps sid.
retains(sid, seats, used) == Truthy(sid) /\ Includes(seats, sid) /\ sid \notin used

\* One pass of the "clear duplicates & invalid seats" loop; acc = [ok, err, clean, used].
repairCleanStep(p, assign, fixed, seats, acc) ==
    IF p.id \in DOMAIN fixed
    THEN IF fixed[p.id] \in acc.used THEN Fail(acc, "seat fixed twice")
         ELSE keepSeat(acc, p.id, fixed[p.id])
    ELSE IF retains(Get(assign, p.id), seats, acc.used)
         THEN keepSeat(acc, p.id, Get(assign, p.id))
         ELSE acc

RECURSIVE repairClean(_, _, _, _, _, _)
repairClean(P, i, assign, fixed, seats, acc) ==
    IF i > Len(P) \/ ~acc.ok THEN acc
    ELSE repairClean(P, i + 1, assign, fixed, seats,
                     repairCleanStep(P[i], assign, fixed, seats, acc))

RECURSIVE repairFill(_, _, _, _)
\* The "fill rest" loop from pupil i; acc = [ok, err, clean, idx].
repairFill(P, i, free, acc) ==
    IF i > Len(P) \/ ~acc.ok THEN acc
    ELSE IF Truthy(Get(acc.clean, P[i].id)) THEN repairFill(P, i + 1, free, acc)
    ELSE IF acc.idx >= Len(free)
    THEN Fail(acc, "Not enough seats to repair assignment")
    ELSE repairFill(P, i + 1, free,
                    [acc EXCEPT !.clean = Put(@, P[i].id, free[acc.idx + 1]),
                                !.idx = @ + 1])

NoRepairPlan(msg) == [ok |-> FALSE, err |-> msg, clean |-> EmptyAssign, free |-> <<>>]

\* free = seats.filter(s => !used.has(s)) after the clean loop cl.
planAfterClean(cl, seats) ==
    IF ~cl.ok THEN NoRepairPlan(cl.err)
    ELSE [ok |-> TRUE, err |-> "", clean |-> cl.clean,
          free |-> SelectSeq(seats, LAMBDA s : s \notin cl.used)]

planAfterApply(fx, assign, P, seats) ==
    IF ~fx.ok THEN NoRepairPlan(fx.err)
    ELSE planAfterClean(
           repairClean(P, 1, assign, fx.fixed, seats,
                       [ok |-> TRUE, err |-> "", clean |-> EmptyAssign, used |-> {}]),
           seats)

\* The repair up to its shuffle: the fixed map, the retained seats, the free seats.
repairPlan(assign, P, room) ==
    planAfterApply(
        repairFixed(P, 1, room, [ok |-> TRUE, err |-> "", fixed |-> EmptyAssign]),
        assign, P, allSeatIds(room))

filled(fl) == IF fl.ok THEN Returned(fl.clean) ELSE Thrown(fl.err)

repairFromPlan(plan, us, P) ==
    IF ~plan.ok THEN Thrown(plan.err)
    ELSE filled(repairFill(P, 1, shuffleInPlace(plan.free, us, 1).arr,
                           [ok |-> TRUE, err |-> "", clean |-> plan.clean, idx |-> 0]))

repairAssignment(assign, us, P, room) == repairFromPlan(repairPlan(assign, P, room), us, P)

repairPlanCalls(plan) == IF ~plan.ok THEN 0 ELSE Max(Len(plan.free) - 1, 0)

\* The rng() calls repairAssignment makes on these inputs: the shuffle of free.
RepairCalls(assign, P, room) == repairPlanCalls(repairPlan(assign, P, room))

repairPlanResults(plan, P) ==
    {repairFromPlan(plan, us, P) : us \in Seeds(repairPlanCalls(plan))}

\* The results repairAssignment(assign, seed) can have over the seeds.
repairResults(assign, P, room) == repairPlanResults(repairPlan(assign, P, room), P)

\* ---------------------------------------------------- distance metrics
Abs(x) == IF x < 0 THEN -x ELSE x

dist(metric, a, b) ==
    IF metric = "manhattan" THEN Abs(a.r - b.r) + Abs(a.c - b.c)
    ELSE IF metric = "chebyshev" THEN Max(Abs(a.r - b.r), Abs(a.c - b.c))
    ELSE (a.r - b.r) * (a.r - b.r) + (a.c - b.c) * (a.c - b.c)

\* ------------------------------------------------------------ rule engine
\* A rule object with every field the engine reads; a field a variant does not
\* use holds a default.
Rule(type, hard, weight) ==
    [type |-> type, hard |-> hard, weight |-> weight, a |-> "", b |-> "", d |-> 0,
     metric |-> "manhattan", pupil_id |-> "", k |-> 0, min_d |-> 0,
     r_min |-> 0, r_max |-> 0, allowed_seat_ids |-> {}, tag |-> ""]

seatPos(sid) == IF ~Truthy(sid) THEN Null ELSE seatPosById(sid)

posOf(assign, pid) == seatPos(Get(assign, pid))

\* p = need - d when d falls short of need, else 0.
shortfall(d, need) == IF d >= need THEN 0 ELSE need - d

\* p = d - most when d exceeds most, else 0.
excess(d, most) == IF d <= most THEN 0 ELSE d - most

penMinDistance(pa, pb, dNeed, metric) ==
    IF pa = Null \/ pb = Null THEN 0 ELSE shortfall(dist(metric, pa, pb), dNeed)

penMaxDistance(pa, pb, dMax, metric) ==
    IF pa = Null \/ pb = Null THEN 0 ELSE excess(dist(metric, pa, pb), dMax)

penNotAdjacent(pa, pb) ==
    IF pa = Null \/ pb = Null THEN 0
    ELSE IF dist("chebyshev", pa, pb) >= 2 THEN 0 ELSE 1

penPreferFront(pp, k) == IF pp = Null THEN 0 ELSE IF pp.r < k THEN 0 ELSE 1

RECURSIVE minTeacherDist(_, _, _)
\* best = Math.min(best, dist[metric](pp, t)) over the teacher tiles.
minTeacherDist(metric, pp, tiles) ==
    IF tiles = {} THEN Infinity
    ELSE Min(dist(metric, pp, [r |-> (CHOOSE x \in tiles : TRUE)[1],
                               c |-> (CHOOSE x \in tiles : TRUE)[2]]),
             minTeacherDist(metric, pp, tiles \ {CHOOSE x \in tiles : TRUE}))

penAwayFromTeacher(pp, teacherTiles, minD, metric) ==
    IF pp = Null \/ teacherTiles = {} THEN 0
    ELSE shortfall(minTeacherDist(metric, pp, teacherTiles), minD)

penMustBeInRows(pp, rMin, rMax) ==
    IF pp = Null THEN 0 ELSE IF pp.r >= rMin /\ pp.r <= rMax THEN 0 ELSE 1

penMustBeInSeats(sid, allowed) ==
    IF ~Truthy(sid) THEN 0 ELSE IF sid \in allowed THEN 0 ELSE 1

\* if(!pa||!pb) continue; if(d < minD) pen += (minD - d)
pairPen(pa, pb, minD, metric) ==
    IF pa = Null \/ pb = Null THEN 0
    ELSE IF dist(metric, pa, pb) < minD THEN minD - dist(metric, pa, pb) ELSE 0

RECURSIVE tagPairs(_, _, _, _, _, _)
\* The double loop of TagSeparation over tagged[i], tagged[j], i < j (1-based here).
tagPairs(assign, tagged, minD, metric, i, j) ==
    IF i > Len(tagged) THEN 0
    ELSE IF j > Len(tagged) THEN tagPairs(assign, tagged, minD, metric, i + 1, i + 2)
    ELSE pairPen(posOf(assign, tagged[i]), posOf(assign, tagged[j]), minD, metric)
         + tagPairs(assign, tagged, minD, metric, i, j + 1)

\* The last pupil of the list that has the id.
lastOf(P, id) ==
    P[CHOOSE i \in 1..Len(P) : P[i].id = id /\ \A j \in (i + 1)..Len(P) : P[j].id # id]

\* The places of the list where an id comes first.
firstPlaces(P) ==
    SelectSeq([i \in 1..Len(P) |-> i], LAMBDA i : \A j \in 1..(i - 1) : P[j].id # P[i].id)

\* Object.fromEntries(pupils.map(p => [p.id, p])), as the sequence of its values:
\* one pupil per id, where the id first stands in the list, the last pupil
\* listed with it.  (Ids that are integers, which an object lists first, are
\* none of the model's.)
pupilsById(P) ==
    [n \in 1..Len(firstPlaces(P)) |-> lastOf(P, P[firstPlaces(P)[n]].id)]

\* A faulty taggedWith: the tag of the pupil is not looked at.
taggedAnyone(tag, assign, P) ==
    IdsOf(SelectSeq(pupilsById(P), LAMBDA p0 : Truthy(Get(assign, p0.id))))

\* The ids of the pupils that carry the tag and have a seat, in the order of
\* Object.values(pupilsById).
taggedWith(tag, assign, P) ==
    IdsOf(SelectSeq(pupilsById(P),
                    LAMBDA p0 : Includes(p0.tags, tag) /\ Truthy(Get(assign, p0.id))))

\* The raw penalty p of a rule, before the hard/weight conversion.
rawPenalty(rule, assign, P, teacherTiles) ==
    IF rule.type = "MinDistance"
    THEN penMinDistance(posOf(assign, rule.a), posOf(assign, rule.b), rule.d, rule.metric)
    ELSE IF rule.type = "MaxDistance"
    THEN penMaxDistance(posOf(assign, rule.a), posOf(assign, rule.b), rule.d, rule.metric)
    ELSE IF rule.type = "NotAdjacent"
    THEN penNotAdjacent(posOf(assign, rule.a), posOf(assign, rule.b))
    ELSE IF rule.type = "PreferFront"
    THEN penPreferFront(posOf(assign, rule.pupil_id), rule.k)
    ELSE IF rule.type = "PreferAwayFromTeacher"
    THEN penAwayFromTeacher(posOf(assign, rule.pupil_id), teacherTiles, rule.min_d, rule.metric)
    ELSE IF rule.type = "MustBeInRows"
    THEN penMustBeInRows(posOf(assign, rule.pupil_id), rule.r_min, rule.r_max)
    ELSE IF rule.type = "MustBeInSeats"
    THEN penMustBeInSeats(Get(assign, rule.pupil_id), rule.allowed_seat_ids)
    ELSE IF rule.type = "TagSeparation"
    THEN tagPairs(assign, taggedWith(rule.tag, assign, P), rule.min_d, rule.metric, 1, 2)
    ELSE 0

\* if(p<=0) return 0; return hard ? (p * HARD_MULT) : (p * weight)
weighted(p, hard, weight) ==
    IF p <= 0 THEN 0 ELSE IF hard THEN p * HARD_MULT ELSE p * weight

rulePenalty(rule, assign, P, teacherTiles) ==
    weighted(rawPenalty(rule, assign, P, teacherTiles), rule.hard, Max(1, rule.weight))

\* A faulty addPenalty: hardBreaks grows by the magnitude of the penalty, and
\* for a rule that is not hard as well.
addPenaltyMagnitude(acc, rule, pen) ==
    [total |-> acc.total + pen,
     hardBreaks |-> acc.hardBreaks + (pen \div HARD_MULT)]

\* total += pen; if(pen>=HARD_MULT && rule.hard) hardBreaks += 1
addPenalty(acc, rule, pen) ==
    [total |-> acc.total + pen,
     hardBreaks |-> IF pen >= HARD_MULT /\ rule.hard
                    THEN acc.hardBreaks + 1 ELSE acc.hardBreaks]

RECURSIVE scoreFrom(_, _, _, _, _, _)
\* The loop of scoreAssignment over the rules from rule i; acc = [total, hardBreaks].
scoreFrom(assign, P, rs, teacherTiles, i, acc) ==
    IF i > Len(rs) THEN acc
    ELSE scoreFrom(assign, P, rs, teacherTiles, i + 1,
                   addPenalty(acc, rs[i], rulePenalty(rs[i], assign, P, teacherTiles)))

scoreAssignment(assign, P, rs, rm) ==
    scoreFrom(assign, P, rs, rm.teacher, 1, [total |-> 0, hardBreaks |-> 0])

\* ------------------------------------------------------------------ state
VARIABLES
    room,        \* state.room: [rows, cols, blocked, teacher, seats]
    tool,        \* state.tool
    pupils,      \* getPupils(): the pupil list of the text area, normalised
    rules,       \* getRules()
    assignment,  \* state.assignment
    ret,         \* what the last call of a routine returned or threw; the last handler
    run          \* the locals of a running solve / quickImprove

vars == <<room, tool, pupils, rules, assignment, ret, run>>

Tools == {"seat", "blocked", "teacher", "empty"}

EmptyRoom(rows, cols) ==
    [rows |-> rows, cols |-> cols, blocked |-> {}, teacher |-> {}, seats |-> <<>>]

NoRet ==
    [op |-> "none", ok |-> TRUE, err |-> "", assign |-> EmptyAssign, isNull |-> FALSE,
     bestScore |-> 0, bestHard |-> 0, arg |-> EmptyAssign]

CallRet(op, res, arg) ==
    [op |-> op, ok |-> res.ok, err |-> res.err, assign |-> res.assign, isNull |-> FALSE,
     bestScore |-> 0, bestHard |-> 0, arg |-> arg]

NoScore == [total |-> 0, hardBreaks |-> 0]

\* The locals of solve (of quickImprove: cur, curSc, best as bestLocal, bestSc as
\* bestLocalSc, i).  proposed, delta, below, accept describe the last iteration's
\* swap; minSeen is the least total of any assignment that has been current.
\* hasCb tells whether solve was given a progressCb, calls lists the arguments
\* of its calls so far, ended counts the restarts that ran to their end.
Idle ==
    [pc |-> "idle", op |-> "none", restarts |-> 0, iters |-> 0, r |-> 0, i |-> 0,
     cur |-> EmptyAssign, curSc |-> NoScore,
     bestLocal |-> EmptyAssign, bestLocalSc |-> NoScore,
     bestGlobal |-> EmptyAssign, bestIsNull |-> TRUE,
     bestScore |-> Infinity, bestHard |-> Infinity,
     proposed |-> FALSE, delta |-> 0, below |-> FALSE, accept |-> FALSE,
     minSeen |-> Infinity,
     hasCb |-> FALSE, calls |-> <<>>, ended |-> 0]

\* ------------------------------------------------- the inputs of the model
PupilNames == <<"A", "B", "C", "D", "E", "F">>

NCells == MaxRows * MaxCols

\* The cells of the full grid in row-major order.
CellSeq == [n \in 1..NCells |-> <<(n - 1) \div MaxCols, (n - 1) % MaxCols>>]

Cells == {CellSeq[n] : n \in 1..NCells}

RECURSIVE SeatAll(_, _)
\* The seat tool clicked on each cell of cs in turn.
SeatAll(rm, cs) ==
    IF Len(cs) = 0 THEN rm ELSE SeatAll(ensureSeat(rm, cs[1][1], cs[1][2]), Tail(cs))

\* The front-left tile is the teacher's when it is no seat.
withTeacher(rm) == IF isSeat(rm, 0, 0) THEN rm ELSE ensureTeacher(rm, 0, 0)

\* A room with the cells cs made seats.
RoomOf(cs) == withTeacher(SeatAll(EmptyRoom(MaxRows, MaxCols), cs))

\* Rooms of the core routines: every cell a seat, all but the first, the last
\* cell alone, none.
CoreRooms ==
    {RoomOf(SubSeq(CellSeq, k + 1, NCells)) : k \in {0, 1, NCells - 1, NCells}}

PupilKinds ==
    { [tags |-> <<>>, fixed |-> NoFix],
      [tags |-> <<"x">>, fixed |-> NoFix],
      [tags |-> <<>>, fixed |-> FixSeat(seatIdFor(0, 1))],
      [tags |-> <<>>, fixed |-> FixRC(0, 0)] }

\* Pupil lists with unique ids, at most MaxPupils long.
PupilLists ==
    UNION { { [i \in 1..n |-> [id |-> PupilNames[i], tags |-> ks[i].tags,
                               fixed |-> ks[i].fixed]] : ks \in [1..n -> PupilKinds] }
            : n \in 0..MaxPupils }

CoreRules ==
    << [Rule("MinDistance", TRUE, 1) EXCEPT !.a = "A", !.b = "B", !.d = 2],
       [Rule("PreferFront", FALSE, 3) EXCEPT !.pupil_id = "C", !.k = 1],
       [Rule("TagSeparation", FALSE, 5) EXCEPT !.tag = "x", !.min_d = 2] >>

\* Stored assignments a document can carry: each pupil id of the model (an id
\* of no pupil when the list is shorter) on one of three seat ids, or absent.
PriorSeats == {seatIdFor(0, 0), seatIdFor(0, 1), seatIdFor(1, 0)}

PriorIds == {PupilNames[i] : i \in 1..MaxPupils}

PriorAssignments ==
    UNION { [D -> PriorSeats] : D \in SUBSET PriorIds }

\* ---------------------------------------------------- core routines, called
InitCore ==
    /\ room \in CoreRooms
    /\ tool = "seat"
    /\ pupils \in PupilLists
    /\ rules = CoreRules
    /\ assignment = EmptyAssign
    /\ ret = NoRet
    /\ run = Idle

\* A stored assignment comes in (importJSON: state.assignment = obj.assignment).
Load(a) ==
    /\ ret.op = "none" /\ run.pc = "idle"
    /\ a # EmptyAssign
    /\ assignment' = a
    /\ ret' = [NoRet EXCEPT !.op = "load"]
    /\ UNCHANGED <<room, tool, pupils, rules, run>>

CanCall == ret.op \in {"none", "load"} /\ run.pc = "idle"

\* buildInitialAssignment(seed)
CallBuild ==
    /\ CanCall /\ ret.op = "none"
    /\ \E res \in buildResults(pupils, room) :
          ret' = CallRet("build", res, EmptyAssign)
    /\ UNCHANGED <<room, tool, pupils, rules, assignment, run>>

\* repairAssignment(state.assignment, seed)
CallRepair ==
    /\ CanCall
    /\ \E res \in repairResults(assignment, pupils, room) :
          ret' = CallRet("repair", res, assignment)
    /\ UNCHANGED <<room, tool, pupils, rules, assignment, run>>

\* ------------------------------------------------------------- annealing
\* A faulty Movable: the fixed pupils are not filtered out.
MovableAll(P) == IdsOf(P)

\* pupils.filter(p => !fixedSet.has(p.id)).map(p => p.id)
Movable(P) == IdsOf(SelectSeq(P, LAMBDA p : ~isFixedPupil(p)))

\* next = {...cur}; next[a] = sb; next[b] = sa
SwapSeats(cur, a, b) == Put(Put(cur, a, Get(cur, b)), b, Get(cur, a))

\* A faulty Accepts: every move is taken.
AcceptsAlways(delta, below) == TRUE

\* if(delta <= 0) accept = true; else accept = (rng() < Math.exp(-delta / Math.max(1e-9, T)))
\* below is the outcome of the comparison of the draw with the exponential.
Accepts(delta, below) == IF delta <= 0 THEN TRUE ELSE below

\* A faulty Improves: the best is never replaced.
ImprovesNever(sc, bestSc) == FALSE

\* if(curSc.total < bestLocalSc.total): whether the accepted assignment is a new best.
Improves(sc, bestSc) == sc.total < bestSc.total

\* The iteration from the acceptance on: cur, curSc and the best of the run.
applyMove(st, next, nextSc, delta, below, accept) ==
    [st EXCEPT !.cur = IF accept THEN next ELSE @,
               !.curSc = IF accept THEN nextSc ELSE @,
               !.bestLocal = IF accept /\ Improves(nextSc, st.bestLocalSc) THEN next ELSE @,
               !.bestLocalSc = IF accept /\ Improves(nextSc, st.bestLocalSc) THEN nextSc ELSE @,
               !.proposed = TRUE, !.delta = delta,
               !.below = delta > 0 /\ below,
               !.accept = accept,
               !.minSeen = IF accept THEN Min(@, nextSc.total) ELSE @,
               !.i = @ + 1]

decideMove(st, next, nextSc, delta, below) ==
    applyMove(st, next, nextSc, delta, below, Accepts(delta, below))

scoreMove(st, next, nextSc, below) ==
    decideMove(st, next, nextSc, nextSc.total - st.curSc.total, below)

\* One iteration of the annealing loop on the locals st, for the pupils a and b
\* drawn and the outcome below of the acceptance draw.
AnnealStep(st, a, b, below, P, rs, rm) ==
    scoreMove(st, SwapSeats(st.cur, a, b),
              scoreAssignment(SwapSeats(st.cur, a, b), P, rs, rm), below)

\* ------------------------------------------------------------------ solve
\* The checks before the first restart.
solveCheck(P, rm) ==
    IF Len(P) = 0 THEN "No pupils."
    ELSE IF Len(allSeatIds(rm)) = 0 THEN "No seats in map."
    ELSE IF Len(P) > Len(allSeatIds(rm)) THEN "Not enough seats"
    ELSE ""

SolveStart ==
    /\ CanCall /\ ret.op = "none"
    /\ \E restarts \in 0..MaxRestarts, iters \in 0..MaxIters, cb \in BOOLEAN :
          IF solveCheck(pupils, room) # ""
          THEN /\ ret' = CallRet("solve", Thrown(solveCheck(pupils, room)), EmptyAssign)
               /\ run' = run
          ELSE /\ run' = [Idle EXCEPT !.pc = "restart", !.op = "solve",
                                      !.restarts = restarts, !.iters = iters,
                                      !.hasCb = cb]
               /\ ret' = ret
    /\ UNCHANGED <<room, tool, pupils, rules, assignment>>

\* let cur = ...; let curSc = scoreAssignment(cur); let bestLocal = cur; ...
beginRun(st, cur, sc) ==
    [st EXCEPT !.pc = "iter", !.i = 0,
               !.cur = cur, !.curSc = sc,
               !.bestLocal = cur, !.bestLocalSc = sc,
               !.proposed = FALSE, !.delta = 0, !.below = FALSE, !.accept = FALSE,
               !.minSeen = Min(@, sc.total)]

\* The head of one restart: the restart's seed, the initial assignment, its score.
SolveRestart ==
    /\ run.pc = "restart" /\ run.r < run.restarts
    /\ \E res \in buildResults(pupils, room) :
          IF ~res.ok
          THEN /\ ret' = CallRet("solve", res, EmptyAssign)
               /\ run' = Idle
          ELSE /\ run' = beginRun(run, res.assign,
                                  scoreAssignment(res.assign, pupils, rules, room))
               /\ ret' = ret
    /\ UNCHANGED <<room, tool, pupils, rules, assignment>>

\* if(bestLocalSc.total === 0) break, taken when this iteration found a new best.
breakOnZero(prev, st) ==
    IF st.accept /\ Improves(st.bestLocalSc, prev.bestLocalSc) /\ st.bestLocalSc.total = 0
    THEN [st EXCEPT !.pc = "endrestart"]
    ELSE st

\* One iteration: two distinct movable pupils, the swap, the acceptance; the
\* restart ends early on a best of total 0.
SolveIter ==
    /\ run.pc = "iter" /\ run.op = "solve" /\ run.i < run.iters
    /\ Len(Movable(pupils)) >= 2
    /\ \E ia \in 1..Len(Movable(pupils)), ib \in 1..Len(Movable(pupils)),
          below \in BOOLEAN :
          /\ ia # ib
          /\ run' = breakOnZero(run, AnnealStep(run, Movable(pupils)[ia],
                                                Movable(pupils)[ib], below,
                                                pupils, rules, room))
    /\ UNCHANGED <<room, tool, pupils, rules, assignment, ret>>

\* if(bestLocalSc.total < bestScore){ bestScore = ...; bestHard = ...; bestGlobal = ... }
keepGlobalBest(st) ==
    IF st.bestLocalSc.total < st.bestScore
    THEN [st EXCEPT !.bestScore = st.bestLocalSc.total,
                    !.bestHard = st.bestLocalSc.hardBreaks,
                    !.bestGlobal = st.bestLocal,
                    !.bestIsNull = FALSE]
    ELSE st

\* progressCb?.({restart: r+1, restarts, bestScore, bestHard}), at the end of a restart.
progressCb(st) ==
    [st EXCEPT !.ended = @ + 1,
               !.calls = IF st.hasCb
                         THEN Append(@, [restart |-> st.r + 1, restarts |-> st.restarts,
                                         bestScore |-> st.bestScore,
                                         bestHard |-> st.bestHard])
                         ELSE @]

\* A faulty nextRestart: a best of 0 does not end the restarts.
nextAlways(st) == [st EXCEPT !.pc = "restart", !.r = @ + 1]

\* if(bestScore === 0) break; else the next restart.
nextRestart(st) ==
    IF st.bestScore = 0 THEN [st EXCEPT !.pc = "return"]
    ELSE [st EXCEPT !.pc = "restart", !.r = @ + 1]

\* The end of a restart on the locals st.
endRestart(st) == nextRestart(progressCb(keepGlobalBest(st)))

\* After the iterations: keep the global best, report it, stop on 0.
SolveEndRestart ==
    /\ run.op = "solve"
    /\ \/ run.pc = "endrestart"
       \/ run.pc = "iter" /\ (run.i >= run.iters \/ Len(Movable(pupils)) < 2)
    /\ run' = endRestart(run)
    /\ UNCHANGED <<room, tool, pupils, rules, assignment, ret>>

SolveReturn ==
    /\ run.op = "solve"
    /\ \/ run.pc = "return"
       \/ run.pc = "restart" /\ run.r >= run.restarts
    /\ ret' = [op |-> "solve", ok |-> TRUE, err |-> "", assign |-> run.bestGlobal,
               isNull |-> run.bestIsNull, bestScore |-> run.bestScore,
               bestHard |-> run.bestHard, arg |-> EmptyAssign]
    /\ run' = [run EXCEPT !.pc = "done"]
    /\ UNCHANGED <<room, tool, pupils, rules, assignment>>

\* ------------------------------------------------------------ quickImprove
\* cur = repairAssignment(cur, seed), when the first step did not throw.
repairFirst(first, us, P, rm) ==
    IF ~first.ok THEN first ELSE repairAssignment(first.assign, us, P, rm)

\* cur = Object.keys(state.assignment).length ? {...state.assignment}
\*       : buildInitialAssignment(seed); cur = repairAssignment(cur, seed)
quickHead(assign, us, P, rm) ==
    repairFirst(IF DOMAIN assign # {} THEN Returned(assign)
                ELSE buildInitialAssignment(us, P, rm),
                us, P, rm)

\* The results the head of quickImprove can have over the seeds.
quickResults(assign, P, rm) ==
    IF DOMAIN assign # {} THEN repairResults(assign, P, rm)
    ELSE {quickHead(assign, us, P, rm) : us \in Seeds(BuildCalls(P, rm))}

QuickStart ==
    /\ CanCall
    /\ \E iters \in 0..MaxIters,
          res \in quickResults(assignment, pupils, room) :
          IF ~res.ok
          THEN /\ ret' = CallRet("quick", res, assignment)
               /\ run' = run
          ELSE /\ run' = beginRun([Idle EXCEPT !.op = "quick", !.iters = iters],
                                  res.assign,
                                  scoreAssignment(res.assign, pupils, rules, room))
               /\ ret' = ret
    /\ UNCHANGED <<room, tool, pupils, rules, assignment>>

QuickIter ==
    /\ run.pc = "iter" /\ run.op = "quick" /\ run.i < run.iters
    /\ Len(Movable(pupils)) >= 2
    /\ \E ia \in 1..Len(Movable(pupils)), ib \in 1..Len(Movable(pupils)),
          below \in BOOLEAN :
          /\ ia # ib
          /\ run' = AnnealStep(run, Movable(pupils)[ia], Movable(pupils)[ib], below,
                               pupils, rules, room)
    /\ UNCHANGED <<room, tool, pupils, rules, assignment, ret>>

QuickReturn ==
    /\ run.pc = "iter" /\ run.op = "quick"
    /\ run.i >= run.iters \/ Len(Movable(pupils)) < 2
    /\ ret' = [op |-> "quick", ok |-> TRUE, err |-> "", assign |-> run.bestLocal,
               isNull |-> FALSE, bestScore |-> run.bestLocalSc.total,
               bestHard |-> run.bestLocalSc.hardBreaks, arg |-> assignment]
    /\ run' = [run EXCEPT !.pc = "done"]
    /\ UNCHANGED <<room, tool, pupils, rules, assignment>>

NextCore ==
    \/ \E a \in PriorAssignments : Load(a)
    \/ CallBuild
    \/ CallRepair
    \/ SolveStart
    \/ SolveRestart
    \/ SolveIter
    \/ SolveEndRestart
    \/ SolveReturn
    \/ QuickStart
    \/ QuickIter
    \/ QuickReturn

SpecCore == InitCore /\ [][NextCore]_vars

\* ------------------------------------------------------ the score, called
\* The longest rule list of the scored documents.
MaxRules == 3

\* Rules of every variant and one of an unknown type.  The soft PreferFront
\* rule weighs as much as a hard rule; a pupil's hard MinDistance can fall
\* short by 2.
ScoreRules ==
    << [Rule("MinDistance", TRUE, 1) EXCEPT !.a = "A", !.b = "B", !.d = 3],
       [Rule("PreferFront", FALSE, HARD_MULT) EXCEPT !.pupil_id = "C", !.k = 1],
       [Rule("NotAdjacent", TRUE, 1) EXCEPT !.a = "A", !.b = "C"],
       [Rule("TagSeparation", FALSE, 1) EXCEPT !.tag = "x", !.min_d = 4],
       [Rule("TagSeparation", TRUE, 1) EXCEPT !.tag = "x", !.min_d = 1,
                                              !.metric = "chebyshev"],
       [Rule("MaxDistance", FALSE, 2) EXCEPT !.a = "B", !.b = "C", !.d = 1,
                                             !.metric = "euclidean2"],
       [Rule("PreferAwayFromTeacher", TRUE, 1) EXCEPT !.pupil_id = "A", !.min_d = 2],
       [Rule("MustBeInRows", FALSE, 3) EXCEPT !.pupil_id = "B", !.r_min = 1, !.r_max = 1],
       [Rule("MustBeInSeats", TRUE, 1) EXCEPT !.pupil_id = "C",
                                              !.allowed_seat_ids = {seatIdFor(0, 0)}],
       Rule("Unknown", TRUE, 1) >>

\* Pupil lists of MaxPupils pupils, each with the tag "x" or with none; the
\* ids all different, or the id of the last that of the first again.
ScorePupils ==
    { [i \in 1..MaxPupils |->
          [id |-> IF i = MaxPupils /\ again THEN PupilNames[1] ELSE PupilNames[i],
           tags |-> ts[i], fixed |-> NoFix]] :
        again \in BOOLEAN, ts \in [1..MaxPupils -> {<<>>, <<"x">>}] }

\* Assignments scored: some of the pupils on seats of the full grid, two of
\* them on one seat as well.
ScoreAssignments ==
    UNION { [D -> {seatIdFor(CellSeq[n][1], CellSeq[n][2]) : n \in 1..NCells}] :
            D \in SUBSET PriorIds }

InitScore ==
    /\ room \in {RoomOf(CellSeq), RoomOf(Tail(CellSeq))}
    /\ tool = "seat"
    /\ pupils \in ScorePupils
    /\ rules \in {SubSeq(ScoreRules, i, Min(i + n - 1, Len(ScoreRules))) :
                      i \in 1..Len(ScoreRules), n \in 0..MaxRules}
    /\ assignment \in ScoreAssignments
    /\ ret = NoRet
    /\ run = Idle

\* scoreAssignment(state.assignment); ret holds the total and hardBreaks returned.
CallScore ==
    /\ ret.op = "none"
    /\ \E sc \in {scoreAssignment(assignment, pupils, rules, room)} :
          ret' = [op |-> "score", ok |-> TRUE,
                  total |-> sc.total, hardBreaks |-> sc.hardBreaks]
    /\ UNCHANGED <<room, tool, pupils, rules, assignment, run>>

SpecScore == InitScore /\ [][CallScore]_vars

\* --------------------------------------------------------------- handlers
\* Pupils the "add pupil" form can add in the model.
MaxAdded == 1

\* The last handler run, and whether its repair returned.
Handled(op, ok) == [NoRet EXCEPT !.op = op, !.ok = ok]

setTool(t) ==
    /\ tool' = t
    /\ ret' = Handled("tool", TRUE)
    /\ UNCHANGED <<room, pupils, rules, assignment, run>>

\* The tool's tile operation of onCellClick.
applyTool(rm, t, r, c) ==
    IF t = "seat" THEN ensureSeat(rm, r, c)
    ELSE IF t = "blocked" THEN ensureBlocked(rm, r, c)
    ELSE IF t = "teacher" THEN ensureTeacher(rm, r, c)
    ELSE ensureEmpty(rm, r, c)

\* try{ state.assignment = repairAssignment(...) }catch{ state.assignment = {} }
orCleared(res) == IF res.ok THEN res.assign ELSE EmptyAssign

\* try{ state.assignment = ... }catch{}
orKept(res, assign) == IF res.ok THEN res.assign ELSE assign

\* A click on the cell (r, c) of the grid, then the repair of the assignment.
onCellClick(r, c) ==
    /\ r \in 0..(room.rows - 1) /\ c \in 0..(room.cols - 1)
    /\ room' = applyTool(room, tool, r, c)
    /\ \E res \in repairResults(assignment, pupils, room') :
          /\ assignment' = orCleared(res)
          /\ ret' = Handled("click", res.ok)
    /\ UNCHANGED <<tool, pupils, rules, run>>

\* A faulty inBoundsKey: the column is not looked at.
inBoundsRow(k, newR, newC) == k[1] >= 0 /\ k[1] < newR

inBoundsKey(k, newR, newC) == k[1] >= 0 /\ k[1] < newR /\ k[2] >= 0 /\ k[2] < newC

\* The room of btnResize: the three sets pruned, then rows and cols set.
resized(rm, newR, newC) ==
    [rows |-> newR, cols |-> newC,
     blocked |-> {k \in rm.blocked : inBoundsKey(k, newR, newC)},
     teacher |-> {k \in rm.teacher : inBoundsKey(k, newR, newC)},
     seats |-> SelectSeq(rm.seats, LAMBDA e : inBoundsKey(e.k, newR, newC))]

btnResize(newR, newC) ==
    /\ room' = resized(room, newR, newC)
    /\ \E res \in repairResults(assignment, pupils, room') :
          /\ assignment' = orCleared(res)
          /\ ret' = Handled("resize", res.ok)
    /\ UNCHANGED <<tool, pupils, rules, run>>

\* pupils.push({id, tags, fixed:null})
withPupil(P, id, tags) == Append(P, [id |-> id, tags |-> tags, fixed |-> NoFix])

btnAddPupil(id, tags) ==
    /\ \A i \in 1..Len(pupils) : pupils[i].id # id
    /\ pupils' = withPupil(pupils, id, tags)
    /\ \E res \in repairResults(assignment, pupils', room) :
          /\ assignment' = orKept(res, assignment)
          /\ ret' = Handled("add", res.ok)
    /\ UNCHANGED <<room, tool, rules, run>>

\* The state literal, on a grid of the model's size.
Init ==
    /\ room = EmptyRoom(MaxRows, MaxCols)
    /\ tool = "seat"
    /\ pupils = <<>>
    /\ rules = <<>>
    /\ assignment = EmptyAssign
    /\ ret = NoRet
    /\ run = Idle

Next ==
    \/ \E t \in Tools : setTool(t)
    \/ \E r \in 0..(MaxRows - 1), c \in 0..(MaxCols - 1) : onCellClick(r, c)
    \/ \E newR \in 1..MaxRows, newC \in 1..MaxCols : btnResize(newR, newC)
    \/ /\ Len(pupils) < MaxAdded
       /\ \E tags \in {<<>>, <<"x">>} : btnAddPupil(PupilNames[Len(pupils) + 1], tags)

Spec == Init /\ [][Next]_vars

\* ------------------------------------------------- an imported document, edited
\* Documents to import: a room, a pupil list that leaves room for one more
\* pupil, a stored assignment.
Documents ==
    { [room |-> rm, pupils |-> P, assignment |-> a] :
        rm \in CoreRooms,
        P \in {Q \in PupilLists : Len(Q) < MaxPupils},
        a \in PriorAssignments }

\* importJSON(obj): the room, the pupils and the assignment of the document,
\* then the repair of the assignment.
importJSON(obj) ==
    /\ room' = obj.room
    /\ pupils' = obj.pupils
    /\ \E res \in repairResults(obj.assignment, pupils', room') :
          /\ assignment' = orCleared(res)
          /\ ret' = Handled("import", res.ok)
    /\ UNCHANGED <<tool, rules, run>>

\* A session: a tool is chosen, a document imported, one edit made.
NextEdit ==
    \/ ret.op = "none" /\ \E t \in Tools : setTool(t)
    \/ ret.op \in {"none", "tool"} /\ \E obj \in Documents : importJSON(obj)
    \/ /\ ret.op = "import"
       /\ \E r \in 0..(MaxRows - 1), c \in 0..(MaxCols - 1) : onCellClick(r, c)
    \/ /\ ret.op = "import"
       /\ \E newR \in 1..MaxRows, newC \in 1..MaxCols : btnResize(newR, newC)
    \/ /\ ret.op = "import"
       /\ \E tags \in {<<>>, <<"x">>} : btnAddPupil(PupilNames[Len(pupils) + 1], tags)

SpecEdit == Init /\ [][NextEdit]_vars

\* ------------------------------------------------------------- properties
PupilIds(P) == {P[i].id : i \in 1..Len(P)}

Injective(a) == \A x \in DOMAIN a : \A y \in DOMAIN a : x # y => a[x] # a[y]

\* A routine returned an assignment (not null) without an error.
ReturnedAssignment ==
    ret.op \in {"build", "repair", "solve", "quick"} /\ ret.ok /\ ~ret.isNull

\* The pupil declares a fixed seat, by identifier or by coordinate.
Declares(p) == HasFixedSeat(p) \/ HasFixedRC(p)

\* The fixed seat the pupil declares exists in the room.
Resolves(p, rm) ==
    IF HasFixedSeat(p) THEN Includes(allSeatIds(rm), p.fixed.seat)
    ELSE MapHas(rm.seats, keyRC(p.fixed.r, p.fixed.c))

DeclaredSeat(p, rm) ==
    IF HasFixedSeat(p) THEN p.fixed.seat
    ELSE MapGet(rm.seats, keyRC(p.fixed.r, p.fixed.c))

\* Every fixed pupil of P sits on its declared seat in a.
FixedAt(a, P, rm) ==
    \A i \in 1..Len(P) :
        Declares(P[i]) =>
            /\ HasFixedRC(P[i]) /\ ~HasFixedSeat(P[i]) => Resolves(P[i], rm)
            /\ Get(a, P[i].id) = DeclaredSeat(P[i], rm)

SomeFixed(P) == \E i \in 1..Len(P) : Declares(P[i])

\* C1: every assignment that buildInitialAssignment, repairAssignment, solve or
\* quickImprove returns without an error is injective: no two distinct pupil
\* ids hold the same seat id.
C1_Injective == ReturnedAssignment => Injective(ret.assign)

\* C1 reached: a repair of a prior assignment that put two pupils on one seat
\* returned an assignment of at least two pupils.
C1_Witness ==
    /\ ret.op = "repair" /\ ret.ok
    /\ ~Injective(ret.arg)
    /\ Cardinality(DOMAIN ret.assign) >= 2

\* C2: every returned assignment has each fixed pupil on its declared seat, and
\* so has the current assignment of a solver after every iteration.
C2_FixedInvariance ==
    /\ ReturnedAssignment => FixedAt(ret.assign, pupils, room)
    /\ run.pc \in {"iter", "endrestart"} => FixedAt(run.cur, pupils, room)

\* C2 reached: solve accepted a swap while a pupil of the list is fixed.
C2_Witness ==
    /\ run.op = "solve" /\ run.pc = "iter"
    /\ run.proposed /\ run.accept
    /\ SomeFixed(pupils)

\* Valid: total over the pupils, injective, every seat in the room, every
\* fixed pupil on its resolved seat.
Valid(a, P, rm) ==
    /\ PupilIds(P) \subseteq DOMAIN a
    /\ Injective(a)
    /\ \A x \in DOMAIN a : Includes(allSeatIds(rm), a[x])
    /\ FixedAt(a, P, rm)

\* C3: the repair of a valid assignment returns it with no pupil's seat
\* changed, whatever the seed, and a repair of the result returns the result.
C3_RepairIdentity ==
    (ret.op = "repair" /\ Valid(ret.arg, pupils, room)) =>
        /\ ret.ok
        /\ DOMAIN ret.assign = PupilIds(pupils)
        /\ \A id \in PupilIds(pupils) : ret.assign[id] = ret.arg[id]
        /\ repairResults(ret.assign, pupils, room) = {Returned(ret.assign)}

\* C3 reached: a valid assignment of two pupils or more, one of them fixed, was
\* repaired in a room that has a seat to spare.
C3_Witness ==
    /\ ret.op = "repair" /\ Valid(ret.arg, pupils, room)
    /\ Len(pupils) >= 2 /\ SomeFixed(pupils)
    /\ Len(allSeatIds(room)) > Len(pupils)

\* The fixed pupils resolve to existing seats, no two to the same one.
FixedResolveDistinct(P, rm) ==
    /\ \A i \in 1..Len(P) : Declares(P[i]) => Resolves(P[i], rm)
    /\ \A i \in 1..Len(P) : \A j \in 1..Len(P) :
          (i # j /\ Declares(P[i]) /\ Declares(P[j]))
              => DeclaredSeat(P[i], rm) # DeclaredSeat(P[j], rm)

\* C4: when the fixed pupils resolve to distinct existing seats and the pupils
\* do not outnumber the seats, repairAssignment returns an assignment whose
\* keys are the pupil ids, each fixed pupil on its seat: a non-fixed pupil
\* never keeps the seat of a fixed pupil, wherever that pupil stands in the list.
C4_FixedBeatsRetained ==
    (/\ ret.op = "repair"
     /\ FixedResolveDistinct(pupils, room)
     /\ Len(pupils) <= Len(allSeatIds(room))) =>
        /\ ret.ok
        /\ DOMAIN ret.assign = PupilIds(pupils)
        /\ FixedAt(ret.assign, pupils, room)

\* A fixed placement the builder fails on: a fixed seat id that is no seat of
\* the room, a fixed coordinate that is no seat tile, two fixed pupils on a seat.
FixedConflict(P, rm) == SomeFixed(P) /\ ~FixedResolveDistinct(P, rm)

\* C5: repairAssignment fails under every fixed-placement condition under which
\* buildInitialAssignment fails.
C5_RepairFailsLikeBuilder ==
    (ret.op = "repair" /\ FixedConflict(pupils, room)) => ~ret.ok

\* C6: buildInitialAssignment and solve fail when the pupil list is empty, when
\* the room has no seat, or when the pupils outnumber the seats.
C6_InputValidation ==
    (/\ ret.op \in {"build", "solve"}
     /\ \/ Len(pupils) = 0
        \/ Len(allSeatIds(room)) = 0
        \/ Len(pupils) > Len(allSeatIds(room))) => ~ret.ok

\* The classifications the tile k has in the room.
ClassesOf(rm, k) ==
    {x \in {"seat", "teacher", "blocked"} :
        \/ x = "seat" /\ k \in MapKeys(rm.seats)
        \/ x = "teacher" /\ k \in rm.teacher
        \/ x = "blocked" /\ k \in rm.blocked}

\* C7: after any sequence of tile operations every coordinate is in at most one
\* of the seat, teacher and blocked sets.
C7_Exclusive == \A k \in Cells : Cardinality(ClassesOf(room, k)) <= 1

WithinGrid(k, rm) == k[1] \in 0..(rm.rows - 1) /\ k[2] \in 0..(rm.cols - 1)

AllWithinGrid(rm) ==
    \A k \in rm.blocked \cup rm.teacher \cup MapKeys(rm.seats) : WithinGrid(k, rm)

\* C8: after any clicks and resizes every classified coordinate lies within the
\* grid; a step that changes the size of the grid removes exactly the
\* out-of-bounds entries of the three sets and keeps every other seat entry,
\* identifier and order unchanged.
C8_ResizePrunes ==
    [][ /\ AllWithinGrid(room) /\ AllWithinGrid(room')
        /\ (room'.rows # room.rows \/ room'.cols # room.cols) =>
              /\ room'.blocked = {k \in room.blocked : WithinGrid(k, room')}
              /\ room'.teacher = {k \in room.teacher : WithinGrid(k, room')}
              /\ room'.seats = SelectSeq(room.seats, LAMBDA e : WithinGrid(e.k, room')) ]_vars

\* C8 reached: a resize left a grid of one tile, a seat with a pupil on it.
C8_Witness ==
    /\ ret.op = "resize"
    /\ room.rows = 1 /\ room.cols = 1
    /\ isSeat(room, 0, 0)
    /\ assignment # EmptyAssign

\* The step is an iteration of a solver's annealing loop.
IterationStep == run.pc = "iter" /\ run'.op = run.op /\ run'.i = run.i + 1

\* The acceptance of the iteration just made: a swap with delta <= 0 is taken,
\* one with delta > 0 only on a draw below the exponential; a taken swap moves
\* the current total by delta, a refused one leaves the current assignment.
AcceptanceRule ==
    /\ run'.delta <= 0 => run'.accept
    /\ (run'.delta > 0 /\ run'.accept) => run'.below
    /\ run'.accept => run'.curSc.total = run.curSc.total + run'.delta
    /\ ~run'.accept => run'.cur = run.cur /\ run'.curSc = run.curSc

\* The best of the restart and the best of all restarts do not increase.
BestNonIncreasing ==
    /\ IterationStep => run'.bestLocalSc.total <= run.bestLocalSc.total
    /\ (run.op = "solve" /\ run'.op = "solve") => run'.bestScore <= run.bestScore

\* The best of a restart is never above the current total; the best of all
\* restarts is not above the best of the restart that has just ended.
BestBelowCurrent ==
    /\ run'.pc \in {"iter", "endrestart"} => run'.bestLocalSc.total <= run'.curSc.total
    /\ (run.op = "solve" /\ run.pc \in {"iter", "endrestart"}
          /\ run'.pc \in {"restart", "return"})
         => run'.bestScore <= run'.bestLocalSc.total

\* C9 (amended): in every iteration of solve and quickImprove the acceptance
\* rule holds; the best total of a restart and the best total across restarts
\* never increase; the best of a restart is never above the current total, and
\* the best across restarts is not above the best of a restart once that
\* restart has ended.
C9_Acceptance ==
    [][ /\ IterationStep => AcceptanceRule
        /\ BestNonIncreasing
        /\ BestBelowCurrent ]_vars

\* C9 reached: in a later restart solve took a swap that made the total worse.
C9_Witness ==
    /\ run.op = "solve" /\ run.pc = "iter" /\ run.r >= 1
    /\ run.proposed /\ run.delta > 0 /\ run.accept

\* C9 as stated: as above, and the best total across restarts is never above
\* the current assignment's total either.
C9_AsStated ==
    [][ /\ IterationStep => AcceptanceRule
        /\ BestNonIncreasing
        /\ BestBelowCurrent
        /\ (run'.op = "solve" /\ run'.pc \in {"iter", "endrestart"})
              => run'.bestScore <= run'.curSc.total ]_vars

\* C10: when solve returns with restarts >= 1 the assignment is not null, its
\* score is the returned bestScore and bestHard, and bestScore is the least
\* total of all the assignments that were current in any restart.
C10_BestReturned ==
    (ret.op = "solve" /\ ret.ok /\ run.restarts >= 1) =>
        /\ ~ret.isNull
        /\ scoreAssignment(ret.assign, pupils, rules, room)
              = [total |-> ret.bestScore, hardBreaks |-> ret.bestHard]
        /\ ret.bestScore = run.minSeen

\* C10 reached: solve returned after two restarts with iterations, with a best
\* total above 0 that an accepted swap of the last restart had changed.
C10_Witness ==
    /\ ret.op = "solve" /\ ret.ok
    /\ run.restarts >= 2 /\ run.r >= 2 /\ run.iters >= 1
    /\ run.proposed /\ run.accept /\ run.delta # 0
    /\ ret.bestScore > 0

\* The contribution of a rule whose raw penalty is p.
Contribution(rule, p) ==
    IF p <= 0 THEN 0 ELSE IF rule.hard THEN p * 1000000 ELSE p * rule.weight

RECURSIVE SumOfContributions(_, _, _, _, _)
\* The sum of the contributions of the rules from rule i on.
SumOfContributions(assign, P, rs, tiles, i) ==
    IF i > Len(rs) THEN 0
    ELSE Contribution(rs[i], rawPenalty(rs[i], assign, P, tiles))
         + SumOfContributions(assign, P, rs, tiles, i + 1)

\* The places of the hard rules with a positive raw penalty.
HardBroken(assign, P, rs, tiles) ==
    {i \in 1..Len(rs) : rs[i].hard /\ rawPenalty(rs[i], assign, P, tiles) > 0}

\* C11: scoreAssignment returns as total the sum of the contributions of all
\* rules and as hardBreaks the number of hard rules whose raw penalty is
\* positive: each counts once whatever its penalty, a rule that is not hard
\* never counts.
C11_ScoreCounts ==
    ret.op = "score" =>
        /\ ret.total = SumOfContributions(assignment, pupils, rules, room.teacher, 1)
        /\ ret.hardBreaks =
              Cardinality(HardBroken(assignment, pupils, rules, room.teacher))

\* C11 reached: a score with two hard rules broken, one of them by 2, and a
\* soft rule that contributes as much as a hard one.
C11_Witness ==
    /\ ret.op = "score" /\ ret.hardBreaks = 2
    /\ \E i \in 1..Len(rules) :
          rules[i].hard /\ rawPenalty(rules[i], assignment, pupils, room.teacher) >= 2
    /\ \E i \in 1..Len(rules) :
          /\ ~rules[i].hard
          /\ rulePenalty(rules[i], assignment, pupils, room.teacher) >= HARD_MULT

\* The pupil ids of the list that carry the tag and hold a seat in assign.
TaggedPlaced(tag, assign, P) ==
    {P[i].id : i \in {k \in 1..Len(P) : Includes(lastOf(P, P[k].id).tags, tag)
                                          /\ Truthy(Get(assign, P[k].id))}}

RECURSIVE SumShortfalls(_, _, _, _)
\* The sum of max(0, minD - dist) over the pairs of the set pairs.
SumShortfalls(pairs, assign, minD, metric) ==
    IF pairs = {} THEN 0
    ELSE LET pr == CHOOSE x \in pairs : TRUE
             a == CHOOSE x \in pr : TRUE
             b == CHOOSE x \in pr : x # a
         IN Max(0, minD - dist(metric, seatPosById(assign[a]), seatPosById(assign[b])))
            + SumShortfalls(pairs \ {pr}, assign, minD, metric)

\* The sum over the unordered pairs of distinct tagged and placed pupils.
PairShortfalls(rule, assign, P) ==
    SumShortfalls({pr \in SUBSET TaggedPlaced(rule.tag, assign, P) : Cardinality(pr) = 2},
                  assign, rule.min_d, rule.metric)

\* C12: the raw penalty of a TagSeparation rule is the sum, over the unordered
\* pairs of distinct placed pupils that both carry the tag, of
\* max(0, minD - dist) in the rule's metric, and the score of a document whose
\* only rule it is is the contribution of that sum.
C12_TagSeparation ==
    /\ \A i \in 1..Len(rules) :
          rules[i].type = "TagSeparation" =>
              rawPenalty(rules[i], assignment, pupils, room.teacher)
                 = PairShortfalls(rules[i], assignment, pupils)
    /\ (ret.op = "score" /\ Len(rules) = 1 /\ rules[1].type = "TagSeparation") =>
          ret.total = Contribution(rules[1], PairShortfalls(rules[1], assignment, pupils))

\* C12 reached: three pupils with the tag on three seats of the 2 x 2 grid were
\* scored under the one rule TagSeparation("x", 4), and the score is the three
\* pairwise shortfalls 3 + 3 + 2.
C12_Witness ==
    /\ ret.op = "score" /\ Len(rules) = 1
    /\ rules[1].type = "TagSeparation" /\ rules[1].min_d = 4
    /\ Cardinality(TaggedPlaced("x", assignment, pupils)) = 3
    /\ Injective(assignment)
    /\ ret.total = 8

\* The assignment is total over the pupils, injective, and on seats of the room.
ValidFor(a, P, rm) ==
    /\ PupilIds(P) \subseteq DOMAIN a
    /\ Injective(a)
    /\ \A x \in DOMAIN a : Includes(allSeatIds(rm), a[x])

\* The last step was an edit: a tile click, a resize, an added pupil, an import.
Edited == ret.op \in {"click", "resize", "add", "import"}

\* C13: after every edit the stored assignment is empty or valid for the
\* current room and pupil list, and it is empty whenever the repair of the
\* edit failed.
C13_ValidOrEmpty ==
    Edited =>
        /\ assignment = EmptyAssign \/ ValidFor(assignment, pupils, room)
        /\ ~ret.ok => assignment = EmptyAssign

\* A fixed pupil of the list claims the seat s.
ClaimedByFixed(s, P, rm) ==
    \E j \in 1..Len(P) :
        /\ Declares(P[j])
        /\ HasFixedSeat(P[j]) \/ Resolves(P[j], rm)
        /\ DeclaredSeat(P[j], rm) = s

\* The non-fixed pupil at place i has a prior seat that still exists and that
\* neither a fixed pupil nor a non-fixed pupil before place i claims.
KeepsPrior(i, prior, P, rm) ==
    /\ ~Declares(P[i])
    /\ Truthy(Get(prior, P[i].id))
    /\ Includes(allSeatIds(rm), Get(prior, P[i].id))
    /\ ~ClaimedByFixed(Get(prior, P[i].id), P, rm)
    /\ \A j \in 1..(i - 1) :
          ~Declares(P[j]) => Get(prior, P[j].id) # Get(prior, P[i].id)

\* The seats of the result that were not handed out anew: those of the fixed
\* pupils and the prior seats kept.
HeldSeats(a, prior, P, rm) ==
    {a[P[j].id] : j \in {k \in 1..Len(P) : Declares(P[k]) \/ KeepsPrior(k, prior, P, rm)}}

\* C14: in an assignment repairAssignment returns, every non-fixed pupil whose
\* prior seat exists and is claimed by no fixed pupil and by no non-fixed pupil
\* earlier in the list has that seat; every other non-fixed pupil has a seat of
\* the room that no fixed pupil, no pupil keeping a seat and no other pupil
\* has; and the keys of the result are the ids of the pupil list alone.
C14_RepairFrame ==
    (ret.op = "repair" /\ ret.ok) =>
        /\ DOMAIN ret.assign = PupilIds(pupils)
        /\ \A i \in 1..Len(pupils) :
              KeepsPrior(i, ret.arg, pupils, room) =>
                  ret.assign[pupils[i].id] = ret.arg[pupils[i].id]
        /\ \A i \in 1..Len(pupils) :
              (~Declares(pupils[i]) /\ ~KeepsPrior(i, ret.arg, pupils, room)) =>
                  /\ Includes(allSeatIds(room), ret.assign[pupils[i].id])
                  /\ ret.assign[pupils[i].id]
                        \notin HeldSeats(ret.assign, ret.arg, pupils, room)
                  /\ \A j \in 1..Len(pupils) :
                        j # i => ret.assign[pupils[j].id] # ret.assign[pupils[i].id]

\* C14 reached: a repair returned where one pupil kept its prior seat, a later
\* pupil with the same prior seat got another, and the prior assignment held
\* an id that is not in the pupil list.
C14_Witness ==
    /\ ret.op = "repair" /\ ret.ok
    /\ \E i \in 1..Len(pupils), j \in 1..Len(pupils) :
          /\ i < j
          /\ KeepsPrior(i, ret.arg, pupils, room)
          /\ ~Declares(pupils[j])
          /\ Get(ret.arg, pupils[j].id) = ret.arg[pupils[i].id]
          /\ ret.assign[pupils[j].id] # ret.arg[pupils[i].id]
    /\ ~(DOMAIN ret.arg \subseteq PupilIds(pupils))

\* The ids of the pupils without a fixed seat, tagged or not, in list order.
MovableIds(P, tagged) ==
    IdsOf(SelectSeq(P, LAMBDA p : ~Declares(p) /\ (IsTagged(p) <=> tagged)))

\* The seats of the room that no fixed pupil holds in a, in the room's order.
FreeSeats(a, P, rm) ==
    SelectSeq(allSeatIds(rm),
              LAMBDA sid : \A i \in 1..Len(P) : Declares(P[i]) => a[P[i].id] # sid)

\* The seats of free that no tagged pupil holds in a.
LeftOver(a, P, free) ==
    {free[n] : n \in 1..Len(free)}
        \ {a[MovableIds(P, TRUE)[k]] : k \in 1..Len(MovableIds(P, TRUE))}

RowOf(sid) == seatPosById(sid).r

\* Some shuffle of the free seats has the tagged pupils of a on its first seats.
TaggedFirst(a, P, free) ==
    \E us \in Seeds(Max(Len(free) - 1, 0)) :
        \A k \in 1..Len(MovableIds(P, TRUE)) :
            a[MovableIds(P, TRUE)[k]] = shuffleInPlace(free, us, 1).arr[k]

\* The untagged pupils of a sit front to back in list order, on seats left
\* over, and leave no such seat empty in a row before one of theirs.
FrontToBack(a, ids, left) ==
    /\ \A i \in 1..Len(ids) : a[ids[i]] \in left
    /\ \A i \in 1..Len(ids) : \A j \in 1..Len(ids) :
          i < j => RowOf(a[ids[i]]) <= RowOf(a[ids[j]])
    /\ \A i \in 1..Len(ids) : \A sid \in left :
          RowOf(sid) < RowOf(a[ids[i]]) => \E m \in 1..Len(ids) : a[ids[m]] = sid

\* C15: in an assignment buildInitialAssignment returns, the tagged pupils
\* without a fixed seat hold the first seats of a shuffle of the free seats;
\* the untagged ones hold seats left over, in rows that do not decrease along
\* the pupil list, and every seat left over in a row before the row of an
\* untagged pupil is held by an untagged pupil.
C15_FrontFill ==
    (ret.op = "build" /\ ret.ok) =>
        /\ TaggedFirst(ret.assign, pupils, FreeSeats(ret.assign, pupils, room))
        /\ FrontToBack(ret.assign, MovableIds(pupils, FALSE),
                       LeftOver(ret.assign, pupils, FreeSeats(ret.assign, pupils, room)))

\* C15 reached: the builder returned with a fixed pupil, a tagged pupil on a
\* seat of the front row and an untagged pupil behind it, while a seat of the
\* room stayed empty.
C15_Witness ==
    /\ ret.op = "build" /\ ret.ok /\ SomeFixed(pupils)
    /\ Len(allSeatIds(room)) > Len(pupils)
    /\ \E t \in 1..Len(MovableIds(pupils, TRUE)), u \in 1..Len(MovableIds(pupils, FALSE)) :
          /\ RowOf(ret.assign[MovableIds(pupils, TRUE)[t]]) = 0
          /\ RowOf(ret.assign[MovableIds(pupils, FALSE)[u]]) = 1

\* The locals of solve without what the callback is and was given.
SansCb(st) == [st EXCEPT !.hasCb = FALSE, !.calls = <<>>]

\* The calls of the callback so far: one for each restart that has ended, the
\* k-th with restart index k, the best scores not increasing; none when solve
\* was given no callback.
CallsInOrder(st) ==
    /\ Len(st.calls) = IF st.hasCb THEN st.ended ELSE 0
    /\ \A k \in 1..Len(st.calls) :
          st.calls[k].restart = k /\ st.calls[k].restarts = st.restarts
    /\ \A k \in 1..(Len(st.calls) - 1) :
          st.calls[k + 1].bestScore <= st.calls[k].bestScore

\* The step ends a restart of solve.
RestartEnds == run.op = "solve" /\ run'.op = "solve" /\ run'.ended = run.ended + 1

\* The step begins a restart of solve.
RestartBegins == run.op = "solve" /\ run.pc = "restart" /\ run'.pc = "iter"

\* The step is the return of solve.
SolveReturns == run.op = "solve" /\ run.pc # "done" /\ run'.pc = "done"

\* C16: the callback of solve is called once at the end of each restart, the
\* k-th call with restart index k and with the best score so far, which never
\* increases; a restart that ends with a best score of 0 is the last, no
\* restart begins and no call is made after it; solve returns after exactly
\* `restarts` restarts unless one ended with a best score of 0; and what the
\* end of a restart leaves in the locals of solve, and so what solve returns,
\* is the same with a callback and without.
C16_Progress ==
    [][ /\ run'.op = "solve" => CallsInOrder(run')
        /\ RestartEnds =>
              /\ run.pc \in {"iter", "endrestart"}
              /\ run'.hasCb =>
                    /\ Len(run'.calls) = Len(run.calls) + 1
                    /\ run'.calls[Len(run'.calls)].bestScore = run'.bestScore
                    /\ run'.calls[Len(run'.calls)].bestHard = run'.bestHard
              /\ run'.bestScore = 0 <=> run'.pc = "return"
              /\ SansCb(run') = SansCb(endRestart([run EXCEPT !.hasCb = ~@]))
        /\ ~RestartEnds => run'.calls = run.calls
        /\ RestartBegins => run.bestScore # 0 /\ run.ended = run.r /\ run.r < run.restarts
        /\ SolveReturns =>
              /\ \/ run.ended = run.restarts
                 \/ run.ended >= 1 /\ run.ended < run.restarts /\ run.bestScore = 0
              /\ ret'.assign = run.bestGlobal /\ ret'.isNull = run.bestIsNull
              /\ ret'.bestScore = run.bestScore /\ ret'.bestHard = run.bestHard ]_vars

\* C16 reached: solve, given a callback and two restarts with iterations,
\* returned after its first restart, which ended with a best score of 0 found
\* by an accepted swap, and the callback was called once.
C16_Witness ==
    /\ ret.op = "solve" /\ ret.ok /\ run.hasCb
    /\ run.restarts = 2 /\ run.ended = 1
    /\ Len(run.calls) = 1 /\ run.calls[1].bestScore = 0
    /\ run.proposed /\ run.accept /\ run.delta < 0

====
